---- MODULE Spec2Model ----
(***************************************************************************)
(* Model of SandBoxedPythonLab.py: the line-delimited JSON-RPC loop        *)
(* (read_message, main_loop and the handlers), the tool registry, the      *)
(* restricted script engine (run_sandboxed_python) and the file sandbox    *)
(* (sandbox_path, tool_write_file, tool_read_file, tool_list_files,        *)
(* reset_sandbox_dir); and of CognitiveLoopServer_Vpoint9.py: the state    *)
(* file and the tools heartbeat, run_cycle, reflect, get_state, set_state. *)
(***************************************************************************)
EXTENDS Integers, Sequences, FiniteSets, TLC

(***************************************************************************)
(* Bounds                                                                  *)
(***************************************************************************)
\* number of lines the model lets the loop read from standard input
MaxReads == 3

\* goal/state service: the largest value the counters are followed to
MaxCount == 2

(***************************************************************************)
(* JSON values.  A Python value is a record tagged by its type.  Strings   *)
(* whose characters matter (paths, file contents) carry a sequence of      *)
(* one-character strings in field cs; strings that are only compared       *)
(* (method and tool names, ids) carry an atom in field s; a script carries *)
(* its statements in field code.  All three are Python str.                *)
(***************************************************************************)
Absent == [t |-> "absent"]      \* the key is not in the dict
None == [t |-> "null"]          \* JSON null / Python None
JNum(n) == [t |-> "num", n |-> n]
JBool(b) == [t |-> "bool", b |-> b]
JStr(s) == [t |-> "str", s |-> s]
JText(cs) == [t |-> "str", cs |-> cs]
JCode(code) == [t |-> "str", code |-> code]
JList(items) == [t |-> "list", items |-> items]
JObj(f) == [t |-> "obj", f |-> f]
\* a Python set: a value a script can build that json.dumps cannot encode
PySet == [t |-> "set"]
EmptyObj == JObj(<<>>)

\* dict.get(key, default); a key mapped to Absent is not in the dict
DictGet(d, key, default) ==
    IF key \in DOMAIN d.f /\ d.f[key] /= Absent THEN d.f[key] ELSE default

\* Python truthiness, as used by `x or y`
Truthy(v) ==
    CASE v.t = "absent" -> FALSE
      [] v.t = "null" -> FALSE
      [] v.t = "num" -> v.n /= 0
      [] v.t = "bool" -> v.b
      [] v.t = "str" -> v \notin {JStr(""), JText(<<>>), JCode(<<>>)}
      [] v.t = "list" -> v.items /= <<>>
      [] v.t = "obj" -> \E key \in DOMAIN v.f : v.f[key] /= Absent
      [] OTHER -> TRUE

\* x or y
PyOr(x, y) == IF Truthy(x) THEN x ELSE y

\* json.dumps succeeds on a handler's result: the value a script bound to
\* "result" is the only part that can be a non-JSON value (TypeError)
Serializable(result) ==
    "result" \in DOMAIN result => result.result.t /= "set"

(***************************************************************************)
(* Paths.  A path string is a sequence of characters.  A location is the   *)
(* sequence of the segments of an absolute path (<<>> is "/"); a segment   *)
(* is a sequence of characters.                                            *)
(***************************************************************************)
\* characters of the path strings the model enumerates
PathAlphabet == {".", "/", "a", "b"}

\* SANDBOX_ROOT = Path(__file__).parent / "sandbox": the directory of the
\* script ("l") and, in it, the sandbox ("s").  Neither name can be spelled
\* with PathAlphabet.
SANDBOX_ROOT == << <<"l">>, <<"s">> >>

\* str.replace("..", ""): one left-to-right pass over non-overlapping matches
RECURSIVE StrReplaceDotDot(_)
StrReplaceDotDot(str) ==
    IF Len(str) < 2 THEN str
    ELSE IF str[1] = "." /\ str[2] = "."
         THEN StrReplaceDotDot(SubSeq(str, 3, Len(str)))
         ELSE <<str[1]>> \o StrReplaceDotDot(Tail(str))

\* str.split("/")
RECURSIVE SplitSlash(_, _)
SplitSlash(str, cur) ==
    IF str = <<>> THEN <<cur>>
    ELSE IF Head(str) = "/"
         THEN <<cur>> \o SplitSlash(Tail(str), <<>>)
         ELSE SplitSlash(Tail(str), Append(cur, Head(str)))

\* pathlib's parsing of a path string: empty and "." segments are dropped,
\* ".." segments are kept
PathParts(str) ==
    SelectSeq(SplitSlash(str, <<>>), LAMBDA seg : seg /= <<>> /\ seg /= <<".">>)

\* pathlib: a POSIX path string is absolute when it starts with a separator
IsAbsolute(str) == str /= <<>> /\ Head(str) = "/"

\* Path.__truediv__: joining an absolute path discards the left operand
PathJoin(base, str) ==
    IF IsAbsolute(str) THEN PathParts(str) ELSE base \o PathParts(str)

\* sandbox_path(rel)
sandbox_path(rel) == PathJoin(SANDBOX_ROOT, StrReplaceDotDot(rel))

\* Path.parent ("/" is its own parent)
Parent(p) == IF p = <<>> THEN p ELSE SubSeq(p, 1, Len(p) - 1)

\* the proper ancestors of p, "/" included
Ancestors(p) == {SubSeq(p, 1, n) : n \in 0 .. (Len(p) - 1)}

\* p is lexically the sandbox root or below it, with no ".." segment left
Confined(p) ==
    /\ Len(p) >= Len(SANDBOX_ROOT)
    /\ SubSeq(p, 1, Len(SANDBOX_ROOT)) = SANDBOX_ROOT
    /\ \A i \in 1 .. Len(p) : p[i] /= <<".", ".">>

\* Path.relative_to(SANDBOX_ROOT) of a location below the root
RelativeToRoot(p) == SubSeq(p, Len(SANDBOX_ROOT) + 1, Len(p))

(***************************************************************************)
(* Text files.  write_text encodes as UTF-8 and, on POSIX, writes "\n" as  *)
(* it is; read_text decodes with universal newlines.  SUR stands for a     *)
(* lone surrogate, which a JSON string can carry and UTF-8 cannot encode.  *)
(***************************************************************************)
CR == "\r"
LF == "\n"
SUR == "SUR"

\* str.encode("utf-8") succeeds
Encodable(cs) == \A i \in 1 .. Len(cs) : cs[i] /= SUR

\* the characters write_text puts in the file
WriteTextEncode(cs) == cs

\* read_text: "\r\n" and "\r" are both read as "\n"
RECURSIVE ReadTextDecode(_)
ReadTextDecode(cs) ==
    IF cs = <<>> THEN <<>>
    ELSE IF Head(cs) = CR
         THEN IF Len(cs) >= 2 /\ cs[2] = LF
              THEN <<LF>> \o ReadTextDecode(SubSeq(cs, 3, Len(cs)))
              ELSE <<LF>> \o ReadTextDecode(Tail(cs))
         ELSE <<Head(cs)>> \o ReadTextDecode(Tail(cs))

(***************************************************************************)
(* State                                                                   *)
(***************************************************************************)
VARIABLES
    pc,       \* "read": at the top of the loop, about to call
              \* read_message; "dispatch": a message is being routed;
              \* "sent": the branch for the message has returned;
              \* "exited": main_loop left by break; "crashed": an uncaught
              \* fault ended the process
    line,     \* the line of the current iteration (NoLine before the read)
    sent,     \* the response lines written in the current iteration
    nRead,    \* lines read so far
    fs,       \* the regular files: location -> characters stored
    dirs,     \* the directories
    caps,     \* mutable state of the shared module objects in
              \* ALLOWED_MODULES (here: the attribute math.leak)
    touched,  \* the locations the current tool call resolved and used
    raised,   \* history of the current iteration: the fault that ended
              \* the script (script) and the fault the tool handler raised
              \* (handler), "none" for no fault, "" when none ran; the
              \* files whose unlink raised (stuck)
    written,  \* history: path argument -> content of the latest
              \* successful write_file to it since the last reset_sandbox
    clean,    \* history: the sandbox was empty at the start or after the
              \* last reset_sandbox, and every write_file since succeeded
    sys_stdout, \* the stream sys.stdout is bound to: "real" or "stdout_buf"
    leaked,   \* the text a script of the current iteration wrote on the
              \* standard output the process started with
    disk,     \* goal/state service: the state file at STATE_PATH
    last      \* goal/state service: history of the latest tool call

\* the variables of the goal/state service, a separate program
loopVars == <<disk, last>>

\* the variables of the script laboratory
labVars == <<pc, line, sent, nRead, fs, dirs, caps, touched, raised, written,
             clean, sys_stdout, leaked>>

vars == <<pc, line, sent, nRead, fs, dirs, caps, touched, raised, written,
          clean, sys_stdout, leaked, disk, last>>

NotRun == [script |-> "", handler |-> "", stuck |-> {}]

\* goal/state service: os.path.exists(STATE_PATH) is false
Missing == [k |-> "missing"]

\* goal/state service: no tool was called yet
NoCall == [tool |-> ""]

(***************************************************************************)
(* Restricted execution engine                                             *)
(***************************************************************************)
\* the statements scripts are made of
Stmts ==
    { "result = 42", "result = {1}", "print('hi')", "math.leak = 7",
      "result = math.leak", "1/0", "json.codecs.sys.exit(3)",
      "print('hi', file=json.codecs.sys.__stdout__)" }

\* exec(code, env_globals, env_locals), statement by statement.  st.result
\* is the binding of "result" in env_locals, st.caps the module state,
\* st.raised the fault that ended the script, st.stdout the text print
\* wrote to the stream sys.stdout is bound to while the script runs,
\* st.real the text it wrote to the stream the process started with.
RECURSIVE Exec(_, _)
Exec(code, st) ==
    IF code = <<>> THEN st
    ELSE LET stmt == Head(code) IN
         CASE stmt = "result = 42" ->
                Exec(Tail(code), [st EXCEPT !.result = JNum(42)])
           [] stmt = "result = {1}" ->
                Exec(Tail(code), [st EXCEPT !.result = PySet])
           [] stmt = "print('hi')" ->
                Exec(Tail(code), [st EXCEPT !.stdout = Append(@, "hi")])
           [] stmt = "print('hi', file=json.codecs.sys.__stdout__)" ->
                Exec(Tail(code), [st EXCEPT !.real = Append(@, "hi")])
           [] stmt = "math.leak = 7" ->
                Exec(Tail(code), [st EXCEPT !.caps = JNum(7)])
           [] stmt = "result = math.leak" ->
                IF st.caps = Absent
                THEN [st EXCEPT !.raised = "Exception"]   \* AttributeError
                ELSE Exec(Tail(code), [st EXCEPT !.result = st.caps])
           [] stmt = "1/0" ->
                [st EXCEPT !.raised = "Exception"]        \* ZeroDivisionError
           [] stmt = "json.codecs.sys.exit(3)" ->
                [st EXCEPT !.raised = "BaseException"]    \* SystemExit

\* the outcome of a tool handler: the fault it raised ("none" when it
\* returned), the value returned, and the state it leaves
Outcome(kind, result, f, d, c, t) ==
    [raised |-> kind, result |-> result, fs |-> f, dirs |-> d, caps |-> c,
     touched |-> t, script |-> "", fault |-> "", stuck |-> {},
     sys_stdout |-> sys_stdout, channel |-> <<>>]

\* the fault a handler raises before it changed anything
Raise(kind) == Outcome(kind, None, fs, dirs, caps, {})

\* an Exception of the named class that leaves the state f, d, c, t
Fault(name, f, d, c, t) ==
    [Outcome("Exception", None, f, d, c, t) EXCEPT !.fault = name]

\* an Exception of the named class raised before anything changed
RaiseError(name) == Fault(name, fs, dirs, caps, {})

\* env_locals.get("result", None)
LocalsGetResult(st) == IF st.result = Absent THEN None ELSE st.result

\* run_sandboxed_python(code): env_locals starts empty; sys.stdout is bound
\* to stdout_buf while the script runs; `except Exception` turns a fault
\* into a traceback in stderr_buf; any other fault propagates after the
\* finally clause, which binds sys.stdout to old_stdout on every path
run_sandboxed_python(code) ==
    LET old_stdout == sys_stdout
        st == Exec(code, [result |-> Absent, caps |-> caps, stdout |-> <<>>,
                          real |-> <<>>, raised |-> "none"])
        stdout_buf == st.stdout
        out == IF st.raised = "BaseException"
               THEN Outcome("BaseException", None, fs, dirs, st.caps, {})
               ELSE Outcome("none",
                            [stdout |-> stdout_buf,
                             stderr |-> IF st.raised = "Exception"
                                        THEN <<"Traceback">> ELSE <<>>,
                             result |-> LocalsGetResult(st)],
                            fs, dirs, st.caps, {})
    IN  [out EXCEPT !.script = st.raised, !.sys_stdout = old_stdout,
                    !.channel = st.real]

\* tool_run_python(params)
tool_run_python(params) ==
    IF params.t /= "obj" THEN RaiseError("AttributeError")
    ELSE LET code == PyOr(PyOr(DictGet(params, "code", None),
                               DictGet(params, "python", None)),
                          JCode(<<>>))
         IN  IF code.t /= "str"
             THEN RaiseError("ValueError: code must be a string")
             ELSE run_sandboxed_python(code.code)

(***************************************************************************)
(* File sandbox tools                                                      *)
(***************************************************************************)
Ok == [ok |-> TRUE]

\* tool_write_file(params)
tool_write_file(params) ==
    IF params.t /= "obj" THEN RaiseError("AttributeError")
    ELSE
    LET rel_path == DictGet(params, "path", None)
        content == DictGet(params, "content", JText(<<>>))
    IN  IF rel_path.t /= "str"
        THEN RaiseError("ValueError: path must be a string")
        ELSE
        LET p == sandbox_path(rel_path.cs)
            made == dirs \cup Ancestors(p)
        IN  IF \E a \in Ancestors(p) : a \in DOMAIN fs
            THEN \* mkdir: an ancestor is a regular file
                 Fault("NotADirectoryError", fs, dirs, caps, {p})
            ELSE IF content.t /= "str"
            THEN \* write_text
                 Fault("TypeError: data must be str", fs, made, caps, {p})
            ELSE IF p \in made
            THEN \* open
                 Fault("IsADirectoryError", fs, made, caps, {p})
            ELSE IF ~Encodable(content.cs)
            THEN \* open(mode "w") truncated the file before the encoder
                 \* raised
                 Fault("UnicodeEncodeError", (p :> <<>>) @@ fs, made, caps, {p})
            ELSE Outcome("none", Ok,
                         (p :> WriteTextEncode(content.cs)) @@ fs,
                         made, caps, {p})

\* tool_read_file(params) that tests p.exists() only: read_text of a
\* directory raises IsADirectoryError
tool_read_file_exists_only(params) ==
    IF params.t /= "obj" THEN RaiseError("AttributeError")
    ELSE
    LET rel_path == DictGet(params, "path", None)
    IN  IF rel_path.t /= "str"
        THEN RaiseError("ValueError: path must be a string")
        ELSE
        LET p == sandbox_path(rel_path.cs)
        IN  IF p \in dirs
            THEN Fault("IsADirectoryError", fs, dirs, caps, {p})
            ELSE IF p \notin DOMAIN fs
            THEN Fault("FileNotFoundError: File not found", fs, dirs, caps, {p})
            ELSE Outcome("none", [content |-> JText(ReadTextDecode(fs[p]))],
                         fs, dirs, caps, {p})

\* tool_read_file(params)
tool_read_file(params) ==
    IF params.t /= "obj" THEN RaiseError("AttributeError")
    ELSE
    LET rel_path == DictGet(params, "path", None)
    IN  IF rel_path.t /= "str"
        THEN RaiseError("ValueError: path must be a string")
        ELSE
        LET p == sandbox_path(rel_path.cs)
        IN  IF p \notin DOMAIN fs
            THEN \* not p.exists() or not p.is_file()
                 Fault("FileNotFoundError: File not found", fs, dirs, caps, {p})
            ELSE Outcome("none", [content |-> JText(ReadTextDecode(fs[p]))],
                         fs, dirs, caps, {p})

\* the regular files SANDBOX_ROOT.glob("**/*") yields
SandboxFiles ==
    {p \in DOMAIN fs : Confined(p) /\ Len(p) > Len(SANDBOX_ROOT)}

\* the orders in which glob can yield the paths of S, each path once
Orders(S) ==
    {o \in [1 .. Cardinality(S) -> S] :
        \A i, j \in 1 .. Cardinality(S) : o[i] = o[j] => i = j}

\* PurePath.as_posix() of a relative path: the segments joined by "/"
RECURSIVE AsPosix(_)
AsPosix(p) ==
    IF p = <<>> THEN <<>>
    ELSE IF Len(p) = 1 THEN p[1]
    ELSE p[1] \o <<"/">> \o AsPosix(Tail(p))

\* tool_list_files(params) without relative_to(SANDBOX_ROOT)
tool_list_files_absolute(params, order) ==
    Outcome("none",
            [files |-> [i \in 1 .. Len(order) |-> AsPosix(order[i])]],
            fs, dirs, caps, SandboxFiles)

\* tool_list_files(params); order is the order glob yields the files in
tool_list_files(params, order) ==
    Outcome("none",
            [files |-> [i \in 1 .. Len(order) |->
                          AsPosix(RelativeToRoot(order[i]))]],
            fs, dirs, caps, SandboxFiles)

\* reset_sandbox_dir() with the try around the whole loop: the first
\* unlink that raises ends the deletion
reset_sandbox_dir_stops_at_fault(stuck) ==
    IF stuck = {} THEN [p \in (DOMAIN fs) \ SandboxFiles |-> fs[p]] ELSE fs

\* reset_sandbox_dir(): every regular file below the root is unlinked and
\* the directories stay; stuck are the files whose unlink raised, which
\* `except Exception: pass` skips
reset_sandbox_dir(stuck) ==
    [p \in ((DOMAIN fs) \ SandboxFiles) \cup stuck |-> fs[p]]

\* tool_reset_sandbox(params)
tool_reset_sandbox(params, stuck) ==
    [Outcome("none", Ok, reset_sandbox_dir(stuck), dirs, caps, SandboxFiles)
        EXCEPT !.stuck = stuck]

\* tool_simulate_kerr, tool_generate_noise, tool_plot_data: they read their
\* arguments with params.get and compute; fault says whether the
\* computation raised (bad numbers, a missing optional library)
tool_numeric(params, fault) ==
    IF params.t /= "obj" THEN RaiseError("AttributeError")
    ELSE IF fault THEN RaiseError("ArithmeticError")
    ELSE Outcome("none", [numbers |-> TRUE], fs, dirs, caps, {})

\* tool_chaos_parameters, tool_gpu_info: params is ignored
tool_info(params) == Outcome("none", [info |-> TRUE], fs, dirs, caps, {})

\* the keys of TOOLS
ToolNames ==
    { "run_python", "simulate_kerr", "generate_noise", "plot_data",
      "chaos_parameters", "write_file", "read_file", "list_files",
      "reset_sandbox", "gpu_info" }

\* what the environment decides during a call of the tool: the order of
\* the directory scan, the files whose unlink raises, whether the numeric
\* computation raises
Env(name) ==
    CASE name = "list_files" -> {[order |-> o] : o \in Orders(SandboxFiles)}
      [] name = "reset_sandbox" -> {[stuck |-> S] : S \in SUBSET SandboxFiles}
      [] name \in {"simulate_kerr", "generate_noise", "plot_data"} ->
           {[fault |-> b] : b \in BOOLEAN}
      [] OTHER -> {[none |-> TRUE]}

\* TOOLS[name](arguments)
TOOLS(name, arguments, env) ==
    CASE name = "run_python" -> tool_run_python(arguments)
      [] name = "write_file" -> tool_write_file(arguments)
      [] name = "read_file" -> tool_read_file(arguments)
      [] name = "list_files" -> tool_list_files(arguments, env.order)
      [] name = "reset_sandbox" -> tool_reset_sandbox(arguments, env.stuck)
      [] name \in {"chaos_parameters", "gpu_info"} -> tool_info(arguments)
      [] OTHER -> tool_numeric(arguments, env.fault)

(***************************************************************************)
(* Input lines                                                             *)
(***************************************************************************)
NoLine == [k |-> "none"]
Eof == [k |-> "eof"]                \* readline() returned ""
Blank == [k |-> "blank"]            \* a line of white space only
Malformed == [k |-> "malformed"]    \* json.loads raises JSONDecodeError
Json(v) == [k |-> "json", v |-> v]  \* json.loads returns v

Ids == {Absent, None, JNum(1), JStr("s")}

\* ids used with the tool calls
CallIds == {Absent, JNum(1)}

Req(id, method, params) ==
    JObj([id |-> id, method |-> method, params |-> params])

CallParams(name, arguments) == JObj([name |-> name, arguments |-> arguments])

\* scripts: no statement, one statement, and two statements of which the
\* second ends the script with a fault or reads back the first
Scripts ==
    {<<>>} \cup {<<a>> : a \in Stmts}
    \cup {<<a, b>> :
            a \in Stmts \ {"1/0", "json.codecs.sys.exit(3)"},
            b \in {"1/0", "json.codecs.sys.exit(3)", "result = math.leak"}}

\* path arguments of the file tools: the root itself, a plain name, a name
\* below a directory, names with parent markers, an absolute path
PathArgs ==
    { <<>>, <<"a">>, <<"b">>, <<"a", "/", "a">>, <<".", ".", "a">>,
      <<".", ".", "/", "a">>, <<".", ".", "/", ".", ".", "/", "a">>,
      <<"/", "a">> }

\* file contents: plain, with a carriage return, not encodable
Contents == { <<"h">>, <<"h", CR, LF>>, <<SUR>> }

RunArgs ==
    {Absent, None, JNum(5)}
    \cup {JObj([code |-> JCode(c)]) : c \in Scripts}
    \cup {JObj([python |-> JCode(c)]) : c \in {<<"result = 42">>}}
    \cup {JObj([code |-> v]) :
            v \in {JNum(0), JNum(5), JList(<<>>), JList(<<None>>),
                   JBool(FALSE), None}}

\* arguments of write_file: every path with plain content, every content
\* with the path "a", and arguments of the wrong type
WriteArgs ==
    {JNum(5)}
    \cup {JObj([path |-> JText(p), content |-> JText(<<"h">>)]) :
            p \in PathArgs}
    \cup {JObj([path |-> JText(<<"a">>), content |-> JText(c)]) :
            c \in Contents}
    \cup {JObj([path |-> JText(<<"a">>), content |-> v]) :
            v \in {Absent, JNum(5)}}
    \cup {JObj([path |-> v, content |-> JText(<<"h">>)]) :
            v \in {Absent, JNum(5)}}

ReadArgs ==
    {Absent, JNum(5), JObj([path |-> JNum(5)])}
    \cup {JObj([path |-> JText(p)]) : p \in PathArgs}

ArgsOf(name) ==
    CASE name = "run_python" -> RunArgs
      [] name = "write_file" -> WriteArgs
      [] name = "read_file" -> ReadArgs
      [] OTHER -> {Absent, JNum(5)}

\* params of a tools/call request
CallParamsSet ==
    {Absent, None, JNum(5), JList(<<None>>)}
    \cup {CallParams(n, Absent) :
            n \in {Absent, JStr("nope"), JNum(5), JList(<<>>)}}
    \cup UNION {{CallParams(JStr(n), a) : a \in ArgsOf(n)} : n \in ToolNames}

\* params used with the alias call_tool and with every id
AliasParamsSet ==
    {Absent, JNum(5), CallParams(JStr("nope"), Absent),
     CallParams(JList(<<>>), Absent),
     CallParams(JStr("list_files"), Absent),
     CallParams(JStr("simulate_kerr"), Absent),
     CallParams(JStr("read_file"), JObj([path |-> JText(<<"a">>)])),
     CallParams(JStr("run_python"), JObj([code |-> JCode(<<"result = 42">>)])),
     CallParams(JStr("run_python"), JObj([code |-> JCode(<<"result = {1}">>)])),
     CallParams(JStr("run_python"),
                JObj([code |-> JCode(<<"json.codecs.sys.exit(3)">>)]))}

CallMethods == {JStr("tools/call"), JStr("call_tool")}

PlainMethods ==
    {Absent, JStr("initialize"), JStr("tools/list"), JStr("list_tools"),
     JStr("bogus")}

Requests ==
    {Req(i, m, p) : i \in Ids, m \in PlainMethods, p \in {Absent, JNum(5)}}
    \cup {Req(i, JStr("tools/call"), p) : i \in CallIds, p \in CallParamsSet}
    \cup {Req(i, JStr("call_tool"), p) : i \in Ids, p \in AliasParamsSet}

Lines ==
    {Eof, Blank, Malformed}
    \cup {Json(v) : v \in {None, JNum(5), JList(<<>>)}}
    \cup {Json(r) : r \in Requests}

(***************************************************************************)
(* Message channel and protocol dispatcher                                 *)
(***************************************************************************)
\* read_message(): None at end of input, on a blank line, on a line that
\* is not JSON, and when the line is the JSON value null
read_message(l) == IF l.k = "json" THEN l.v ELSE None

\* the message main_loop is routing
msg == read_message(line)

\* msg.get("id")
msg_id == DictGet(msg, "id", None)

\* msg.get("method")
msg_method == DictGet(msg, "method", None)

\* msg.get("params", {}) or {}
msg_params == PyOr(DictGet(msg, "params", EmptyObj), EmptyObj)

ResultResponse(id, result) == [id |-> id, kind |-> "result", body |-> result]

\* an error response that does not echo the id
ErrorResponseNullId(id, code, what, arg) ==
    [id |-> None, kind |-> "error", code |-> code, what |-> what, arg |-> arg]

ErrorResponse(id, code, what, arg) ==
    [id |-> id, kind |-> "error", code |-> code, what |-> what, arg |-> arg]

\* send_message(m): one line on the stream sys.stdout is bound to
send_message(stream, m) ==
    sent' = IF stream = "real" THEN Append(sent, m) ELSE sent

\* values that cannot be looked up in a dict (TypeError: unhashable type)
Unhashable(v) == v.t \in {"list", "obj", "set"}

InitializeResult ==
    [protocolVersion |-> "2024-11-05",
     serverInfo |-> [name |-> "python-lab", version |-> "1.0.0"],
     capabilities |-> [tools |-> EmptyObj]]

Init ==
    /\ pc = "read"
    /\ line = NoLine
    /\ sent = <<>>
    /\ nRead = 0
    /\ fs = <<>>
    /\ dirs = {<<>>, << <<"l">> >>, SANDBOX_ROOT}
    /\ caps = Absent
    /\ touched = {}
    /\ raised = NotRun
    /\ written = <<>>
    /\ clean = TRUE
    /\ sys_stdout = "real"
    /\ leaked = <<>>
    /\ disk = Missing
    /\ last = NoCall

\* main_loop: msg = read_message(); if msg is None: break
ReadMessage ==
    /\ pc = "read"
    /\ nRead < MaxReads
    /\ \E l \in Lines :
        /\ line' = l
        /\ pc' = IF read_message(l) = None THEN "exited" ELSE "dispatch"
    /\ nRead' = nRead + 1
    /\ UNCHANGED <<sent, fs, dirs, caps, touched, raised, written, clean,
                   sys_stdout, leaked, disk, last>>

\* main_loop: msg.get on a message that is not a dict raises AttributeError
MsgNotObject ==
    /\ pc = "dispatch"
    /\ msg.t /= "obj"
    /\ pc' = "crashed"
    /\ UNCHANGED <<line, sent, nRead, fs, dirs, caps, touched, raised, written, clean,
                   sys_stdout, leaked, disk, last>>

\* handle_initialize(msg_id, params) that also starts the session afresh
\* by dropping what scripts stored in the shared modules
handle_initialize_fresh_session ==
    /\ pc = "dispatch"
    /\ msg.t = "obj"
    /\ msg_method = JStr("initialize")
    /\ send_message(sys_stdout,
                    ResultResponse(msg_id, InitializeResult))
    /\ pc' = "sent"
    /\ caps' = Absent
    /\ UNCHANGED <<line, nRead, fs, dirs, touched, raised, written, clean,
                   sys_stdout, leaked, disk, last>>

\* handle_initialize(msg_id, params)
handle_initialize ==
    /\ pc = "dispatch"
    /\ msg.t = "obj"
    /\ msg_method = JStr("initialize")
    /\ send_message(sys_stdout,
                    ResultResponse(msg_id, InitializeResult))
    /\ pc' = "sent"
    /\ UNCHANGED <<line, nRead, fs, dirs, caps, touched, raised, written, clean,
                   sys_stdout, leaked, disk, last>>

\* handle_list_tools(msg_id)
handle_list_tools ==
    /\ pc = "dispatch"
    /\ msg.t = "obj"
    /\ msg_method \in {JStr("list_tools"), JStr("tools/list")}
    /\ send_message(sys_stdout,
                    ResultResponse(msg_id, [tools |-> ToolNames]))
    /\ pc' = "sent"
    /\ UNCHANGED <<line, nRead, fs, dirs, caps, touched, raised, written, clean,
                   sys_stdout, leaked, disk, last>>

\* main_loop: the final else branch
UnknownMethod ==
    /\ pc = "dispatch"
    /\ msg.t = "obj"
    /\ msg_method \notin
         {JStr("initialize"), JStr("list_tools"), JStr("tools/list")}
         \cup CallMethods
    /\ send_message(sys_stdout,
                    ErrorResponse(msg_id, -32601, "Unknown method", msg_method))
    /\ pc' = "sent"
    /\ UNCHANGED <<line, nRead, fs, dirs, caps, touched, raised, written, clean,
                   sys_stdout, leaked, disk, last>>

IsCall == pc = "dispatch" /\ msg.t = "obj" /\ msg_method \in CallMethods

\* params.get("name")
call_name == DictGet(msg_params, "name", None)

\* params.get("arguments", {})
call_arguments == DictGet(msg_params, "arguments", EmptyObj)

\* handle_call_tool: params.get on a value that is not a dict, or
\* `name not in TOOLS` on an unhashable name, raises outside the try
CallToolFault ==
    /\ IsCall
    /\ (msg_params.t = "obj" => Unhashable(call_name))
    /\ pc' = "crashed"
    /\ UNCHANGED <<line, sent, nRead, fs, dirs, caps, touched, raised, written, clean,
                   sys_stdout, leaked, disk, last>>

Registered(name) == name.t = "str" /\ name.s \in ToolNames

\* handle_call_tool: name not in TOOLS
CallUnknownTool ==
    /\ IsCall
    /\ msg_params.t = "obj"
    /\ ~Unhashable(call_name)
    /\ ~Registered(call_name)
    /\ send_message(sys_stdout,
                    ErrorResponse(msg_id, -32601, "Unknown tool", call_name))
    /\ pc' = "sent"
    /\ UNCHANGED <<line, nRead, fs, dirs, caps, touched, raised, written, clean,
                   sys_stdout, leaked, disk, last>>

\* the history of successful writes after a call of tool name returned
WrittenAfter(name, arguments) ==
    CASE name = "write_file" ->
           (DictGet(arguments, "path", None).cs
              :> DictGet(arguments, "content", JText(<<>>)).cs) @@ written
      [] name = "reset_sandbox" -> <<>>
      [] OTHER -> written

\* the history clean after a call of tool name ended with outcome out
CleanAfter(name, out) ==
    CASE name = "write_file" -> clean /\ out.raised = "none"
      [] name = "reset_sandbox" -> out.stuck = {}
      [] OTHER -> clean

\* handle_call_tool: the try block around TOOLS[name](arguments) and
\* send_message; `except Exception` answers with code -32000, any other
\* fault leaves handle_call_tool and main_loop
CallTool ==
    /\ IsCall
    /\ msg_params.t = "obj"
    /\ Registered(call_name)
    /\ \E env \in Env(call_name.s) :
        LET out == TOOLS(call_name.s, call_arguments, env) IN
        /\ fs' = out.fs
        /\ dirs' = out.dirs
        /\ caps' = out.caps
        /\ touched' = out.touched
        /\ raised' = [script |-> out.script, handler |-> out.raised,
                       stuck |-> out.stuck]
        /\ sys_stdout' = out.sys_stdout
        /\ leaked' = out.channel
        /\ IF out.raised = "BaseException"
           THEN /\ pc' = "crashed"
                /\ sent' = sent
                /\ UNCHANGED <<written, clean>>
           ELSE /\ pc' = "sent"
                /\ clean' = CleanAfter(call_name.s, out)
                /\ IF out.raised = "none" /\ Serializable(out.result)
                   THEN /\ send_message(out.sys_stdout,
                                        ResultResponse(msg_id, out.result))
                        /\ written' = WrittenAfter(call_name.s, call_arguments)
                   ELSE /\ send_message(out.sys_stdout,
                             ErrorResponse(msg_id, -32000, "Tool error",
                               JStr(IF out.raised = "none"
                                    THEN "TypeError: not JSON serializable"
                                    ELSE out.fault)))
                        /\ UNCHANGED written
    /\ UNCHANGED <<line, nRead, disk, last>>

\* main_loop: `while True` takes the loop back to read_message; the
\* message, its response and the resolved paths of the iteration are dead
LoopBack ==
    /\ pc = "sent"
    /\ pc' = "read"
    /\ line' = NoLine
    /\ sent' = <<>>
    /\ touched' = {}
    /\ raised' = NotRun
    /\ leaked' = <<>>
    /\ UNCHANGED <<nRead, fs, dirs, caps, written, clean, sys_stdout,
                   disk, last>>

Next ==
    \/ ReadMessage
    \/ LoopBack
    \/ MsgNotObject
    \/ handle_initialize
    \/ handle_list_tools
    \/ UnknownMethod
    \/ CallToolFault
    \/ CallUnknownTool
    \/ CallTool

Spec == Init /\ [][Next]_vars

(***************************************************************************)
(* The request of the current iteration, read off the input line           *)
(***************************************************************************)
IsRequest == line.k = "json" /\ line.v.t = "obj"

\* the id the caller put in the request, null when it put none
RequestId == IF line.v.f.id = Absent THEN None ELSE line.v.f.id

\* the request is a tools/call (or call_tool) naming tool with a params object
IsToolCall(tool) ==
    /\ IsRequest
    /\ line.v.f.method \in {JStr("tools/call"), JStr("call_tool")}
    /\ line.v.f.params.t = "obj"
    /\ line.v.f.params.f.name = JStr(tool)

RequestArgs == line.v.f.params.f.arguments

\* the arguments are an object whose key is a string
ArgIsString(key) ==
    /\ RequestArgs.t = "obj"
    /\ key \in DOMAIN RequestArgs.f
    /\ RequestArgs.f[key].t = "str"

\* the iteration has answered with exactly one response line
Answered == pc = "sent" /\ Len(sent) = 1

IsResult(r) == r.kind = "result"

IsError(r, code) == r.kind = "error" /\ r.code = code

(***************************************************************************)
(* Claims                                                                  *)
(***************************************************************************)

\* C1: every response written for a request object carries that request's
\* id, whatever the method and whether it is a result or an error; a
\* request without an id is answered with id null.
IdEchoed ==
    \A i \in 1 .. Len(sent) : IsRequest /\ sent[i].id = RequestId

\* C1 witness: an error response to a request that has no id carries null
IdEchoedWitness ==
    /\ Answered
    /\ line.v.f.id = Absent
    /\ sent[1].kind = "error"
    /\ sent[1].id = None

\* C2: every location a write_file or read_file call resolves and uses
\* is the sandbox root or a descendant of it, for any path string.
AllTouchedConfined ==
    (IsToolCall("write_file") \/ IsToolCall("read_file"))
        => \A p \in touched : Confined(p)

\* a path string with a parent-directory marker
HasParentMarker(rel) ==
    \E i \in 1 .. (Len(rel) - 1) : rel[i] = "." /\ rel[i + 1] = "."

\* C3: for a relative path with parent-directory markers, sandbox_path
\* gives a location with no ".." segment that lies under the sandbox root.
ParentMarkersStayUnderRoot ==
    /\ (IsToolCall("write_file") \/ IsToolCall("read_file"))
    /\ ArgIsString("path")
    /\ ~IsAbsolute(RequestArgs.f.path.cs)
    /\ HasParentMarker(RequestArgs.f.path.cs)
    /\ touched /= {}
    => touched = {sandbox_path(RequestArgs.f.path.cs)}
       /\ \A p \in touched : Confined(p)

\* C4: a blank or malformed line does not end the loop; the loop is left
\* only at end of input.
OnlyEofEndsLoop ==
    /\ line \in {Blank, Malformed} => pc /= "exited"
    /\ pc = "exited" => line = Eof

\* C5: when the handler of a registered tool raises a fault of any kind,
\* the call is answered with error -32000 and the process goes on.
HandlerFaultAnswered ==
    raised.handler \in {"Exception", "BaseException"}
        => Answered /\ IsError(sent[1], -32000)

\* C6: no line that parses as JSON ends the process, whatever the shape of
\* the message: the loop neither exits nor is left by a fault.
JsonNeverTerminates ==
    line.k = "json" => pc \notin {"exited", "crashed"}

\* C7: a run_python call whose script is ended by a fault is answered with
\* a result whose stderr is not empty and whose result field is null.
ScriptFaultGivesNullResult ==
    Answered /\ IsToolCall("run_python") /\ raised.script = "Exception"
        => /\ IsResult(sent[1])
           /\ sent[1].body.stderr /= <<>>
           /\ sent[1].body.result = None

\* C8: a run_python call whose code argument is a string is answered with
\* a result carrying stdout, stderr and result, never with an error.
StringCodeNeverErrors ==
    Answered /\ IsToolCall("run_python") /\ ArgIsString("code")
        => /\ IsResult(sent[1])
           /\ DOMAIN sent[1].body = {"stdout", "stderr", "result"}

\* what a script returns when nothing ran before it: the outcome of
\* run_sandboxed_python in a process whose modules are untouched
FreshRun(code) ==
    Exec(code, [result |-> Absent, caps |-> Absent, stdout |-> <<>>,
                raised |-> "none"])

\* C9: the result a run_python call returns is the value its own script
\* bound to "result" (null when it bound none): the response is the one
\* the same script gets when no call was made before it.
NoStateAcrossCalls ==
    Answered /\ IsToolCall("run_python") /\ ArgIsString("code")
        /\ IsResult(sent[1])
        => LET fresh == FreshRun(RequestArgs.f.code.code) IN
           /\ sent[1].body.result = LocalsGetResult(fresh)
           /\ (sent[1].body.stderr /= <<>>) = (fresh.raised /= "none")

\* C10: read_file(path) returns exactly the content of the latest
\* successful write_file(path, content) since the last reset_sandbox.
ReadReturnsLastWrite ==
    /\ Answered
    /\ IsToolCall("read_file")
    /\ ArgIsString("path")
    /\ RequestArgs.f.path.cs \in DOMAIN written
    => /\ IsResult(sent[1])
       /\ sent[1].body.content = JText(written[RequestArgs.f.path.cs])

\* the path arguments written with success since the sandbox was empty whose
\* resolved location lies below the sandbox root
WrittenUnderRoot == {p \in DOMAIN written : Confined(sandbox_path(p))}

\* the entries of a list_files response, as a set
ListedEntries == {sent[1].body.files[i] : i \in 1 .. Len(sent[1].body.files)}

\* a list_files call was answered after write_file calls that all succeeded
\* on a sandbox that started empty
ListedAfterWrites ==
    Answered /\ IsToolCall("list_files") /\ clean /\ IsResult(sent[1])

\* C11 as stated: after successful write_file calls for N distinct path
\* arguments on an empty sandbox, list_files returns exactly N entries.
NArgumentsGiveNEntries ==
    ListedAfterWrites
        => Len(sent[1].body.files) = Cardinality(DOMAIN written)

\* C11 amended: after write_file calls that all succeed on a sandbox that
\* started empty, list_files answers with a result that has no duplicates
\* and exactly one entry, the "/"-joined path relative to the root, for each
\* distinct location under the root the path arguments resolve to; path
\* arguments that resolve to the same location share one entry and those
\* that resolve outside the root have none.
OneEntryPerFileUnderRoot ==
    Answered /\ IsToolCall("list_files")
        => /\ IsResult(sent[1])
           /\ Cardinality(ListedEntries) = Len(sent[1].body.files)
           /\ clean =>
                /\ ListedEntries =
                     {AsPosix(RelativeToRoot(sandbox_path(p))) :
                        p \in WrittenUnderRoot}
                /\ Len(sent[1].body.files) =
                     Cardinality({sandbox_path(p) : p \in WrittenUnderRoot})

\* C11 witness: two files are listed after writes to two path arguments
\* that resolve to different locations under the root
OneEntryPerFileUnderRootWitness ==
    /\ ListedAfterWrites
    /\ Len(sent[1].body.files) = 2
    /\ Cardinality(WrittenUnderRoot) = 2

\* the step that answers a reset_sandbox call
ResetStep == pc = "dispatch" /\ IsToolCall("reset_sandbox")

\* in the state after the step, read_file of path argument p raises
ReadFailsNext(p) ==
    (tool_read_file(JObj([path |-> JText(p)])).raised)' = "Exception"

\* in the state after the step, the entries list_files returns, as a set
ListedNext ==
    {(AsPosix(RelativeToRoot(q)))' : q \in (SandboxFiles)'}

\* C12 as stated: reset_sandbox always answers with the success
\* acknowledgment, also when an unlink faults, and afterwards list_files
\* returns zero entries and read_file of every previously written path fails.
ResetLeavesNothing ==
    [][ResetStep =>
         /\ pc' = "sent"
         /\ Len(sent') = 1 /\ IsResult(sent'[1]) /\ sent'[1].body = Ok
         /\ ListedNext = {}
         /\ \A p \in DOMAIN written : ReadFailsNext(p)]_vars

\* C12 amended: reset_sandbox always answers with the success
\* acknowledgment, also when an unlink faults; a faulting unlink does not
\* stop the deletion of the other files; afterwards list_files returns
\* exactly the files whose unlink faulted (zero entries when none did), and
\* read_file of a previously written path fails unless the unlink of its
\* file faulted or the path resolves outside the sandbox root, where
\* reset_sandbox deletes nothing.
ResetDeletesWhatItCan ==
    [][ResetStep =>
         /\ pc' = "sent"
         /\ Len(sent') = 1 /\ IsResult(sent'[1]) /\ sent'[1].body = Ok
         /\ raised'.stuck \subseteq SandboxFiles
         /\ (SandboxFiles)' = raised'.stuck
         /\ ListedNext = {AsPosix(RelativeToRoot(q)) : q \in raised'.stuck}
         /\ \A q \in DOMAIN fs' : fs'[q] = fs[q]
         /\ \A q \in (DOMAIN fs) \ SandboxFiles : q \in DOMAIN fs'
         /\ \A p \in DOMAIN written :
              ReadFailsNext(p) <=>
                  /\ Confined(sandbox_path(p))
                  /\ sandbox_path(p) \notin raised'.stuck]_vars

\* C12 witness: a reset of a sandbox with two files was acknowledged; the
\* unlink of one file faulted and the other file is gone
ResetDeletesWhatItCanWitness ==
    /\ Answered /\ IsToolCall("reset_sandbox") /\ IsResult(sent[1])
    /\ Cardinality(touched) = 2
    /\ Cardinality(raised.stuck) = 1
    /\ SandboxFiles = raised.stuck

\* the iteration for the current line is over
IterationDone == pc \in {"sent", "crashed"}

\* some response of the iteration is an error with the code
HasError(code) == \E i \in 1 .. Len(sent) : IsError(sent[i], code)

\* the request's method is outside the closed method set
MethodUnknown ==
    msg_method \notin
        {JStr("initialize"), JStr("list_tools"), JStr("tools/list")}
        \cup CallMethods

\* the request is a tools/call that names a tool that is not registered
ToolUnregistered ==
    /\ msg_method \in CallMethods
    /\ msg_params.t = "obj"
    /\ ~Registered(call_name)

\* C13: an error response has code -32601 exactly when the method is
\* outside the closed set or the tools/call names an unregistered tool, and
\* code -32000 exactly when a registered handler raised; no other code
\* appears and the -32601 message names the unknown method or tool.
ErrorCodesExact ==
    IsRequest /\ IterationDone
        => /\ HasError(-32601) <=> (MethodUnknown \/ ToolUnregistered)
           /\ HasError(-32000)
                <=> raised.handler \in {"Exception", "BaseException"}
           /\ \A i \in 1 .. Len(sent) :
                sent[i].kind = "error" =>
                    /\ sent[i].code \in {-32601, -32000}
                    /\ sent[i].code = -32601 =>
                         sent[i].arg = IF MethodUnknown THEN msg_method
                                       ELSE call_name

\* the value the call's arguments give for key, null when they give none
ArgOr(key) ==
    IF call_arguments.t = "obj" THEN DictGet(call_arguments, key, None)
    ELSE None

\* the call is for a core handler and its required argument is missing or
\* is not a string
RequiredArgumentBad ==
    \/ /\ IsToolCall("run_python")
       /\ ArgOr("code").t /= "str" /\ ArgOr("python").t /= "str"
    \/ /\ IsToolCall("write_file")
       /\ \/ ArgOr("path").t /= "str"
          \/ ArgOr("content").t \notin {"str", "null"}
    \/ /\ IsToolCall("read_file")
       /\ ArgOr("path").t /= "str"

\* C14: a tools/call of run_python, write_file or read_file whose required
\* argument is missing or has the wrong type is answered with an error of
\* code -32000 that describes the fault, runs no script, and leaves the
\* files and their contents unchanged.
BadArgumentsRejected ==
    [][pc = "dispatch" /\ RequiredArgumentBad =>
         /\ pc' = "sent"
         /\ Len(sent') = 1 /\ IsError(sent'[1], -32000)
         /\ sent'[1].arg /= JStr("")
         /\ raised'.script = ""
         /\ fs' = fs]_vars

\* the location the path argument of the call resolves to
ResolvedPath == sandbox_path(ArgOr("path").cs)

\* C15: read_file of a path whose resolved location is absent or is a
\* directory, also one that exists only as the parent of a deeper write,
\* is answered with an RPC error that reports the not-found fault, and the
\* failed read leaves the files and directories unchanged.
ReadOfNoFileFails ==
    [][/\ pc = "dispatch"
       /\ IsToolCall("read_file")
       /\ ArgOr("path").t = "str"
       /\ ResolvedPath \notin DOMAIN fs
       => /\ pc' = "sent"
          /\ Len(sent') = 1 /\ IsError(sent'[1], -32000)
          /\ sent'[1].arg = JStr("FileNotFoundError: File not found")
          /\ fs' = fs /\ dirs' = dirs]_vars

\* C15 witness: the read of a directory that an earlier write to a deeper
\* path created was answered with the error
ReadOfNoFileFailsWitness ==
    /\ Answered /\ IsToolCall("read_file") /\ ArgOr("path").t = "str"
    /\ ResolvedPath \in dirs
    /\ Len(ResolvedPath) > Len(SANDBOX_ROOT)
    /\ IsError(sent[1], -32000)

\* the request of the iteration is an initialize
IsInitialize == IsRequest /\ line.v.f.method = JStr("initialize")

\* C16: initialize is answered, after any prior requests, with one result
\* that holds the fixed protocol version, the server info and an empty
\* tools capability object, never with an error, and the step changes
\* nothing that a later tools/list or tools/call reads: files, directories,
\* the shared module objects and the binding of sys.stdout.
InitializeFixedAndInert ==
    [][pc = "dispatch" /\ IsInitialize =>
         /\ pc' = "sent"
         /\ sent' = << [id |-> RequestId, kind |-> "result",
                        body |-> [protocolVersion |-> "2024-11-05",
                                  serverInfo |-> [name |-> "python-lab",
                                                  version |-> "1.0.0"],
                                  capabilities |->
                                      [tools |-> [t |-> "obj", f |-> <<>>]]]] >>
         /\ UNCHANGED <<fs, dirs, caps, sys_stdout>>]_vars

\* C16 witness: initialize was answered with a result as the third request,
\* after a script stored a value in a shared module and a file was written
InitializeFixedAndInertWitness ==
    /\ Answered /\ IsInitialize /\ IsResult(sent[1])
    /\ nRead = 3
    /\ caps /= Absent
    /\ fs /= <<>>

\* C17: every request object read from the stream gets exactly one response
\* line, never zero and never two, and that line is written before the next
\* request is read: no response is pending while a request is dispatched.
ExactlyOneResponsePerRequest ==
    IsRequest
        => /\ IterationDone => Len(sent) = 1
           /\ pc = "dispatch" => sent = <<>>

\* C18: sys.stdout is bound to the real stream whenever no script is
\* running, on every exit path of run_sandboxed_python; text printed by a
\* script never appears on the message channel; and the response of a call
\* whose script ended, with or without a caught fault, is on the real
\* output stream.
ScriptOutputStaysInBuffers ==
    /\ sys_stdout = "real"
    /\ leaked = <<>>
    /\ pc = "sent" /\ raised.script \in {"none", "Exception"}
         => Len(sent) = 1

(***************************************************************************)
(* Goal/state service (CognitiveLoopServer): a JSON file of state and the  *)
(* tools that read and update it.  A dict is a function from keys to JSON  *)
(* values.                                                                 *)
(***************************************************************************)
STATE_DEFAULT ==
    [cycle |-> JNum(0), active_goals |-> JList(<<>>),
     last_plan |-> JList(<<>>), last_reflection |-> JList(<<>>),
     heartbeat |-> JNum(0), last_seen |-> None]

\* the state file holds text that json.load rejects
Corrupt == [k |-> "corrupt"]

\* the state file holds the JSON text of dict d
File(d) == [k |-> "json", d |-> d]

\* dict.update
DictUpdate(d, u) ==
    [k \in (DOMAIN d) \cup (DOMAIN u) |-> IF k \in DOMAIN u THEN u[k] ELSE d[k]]

\* _load_state_from_disk(): the defaults when the file is missing or cannot
\* be read, else the defaults overlaid with the file's dict
_load_state_from_disk ==
    IF disk.k = "missing" THEN STATE_DEFAULT
    ELSE IF disk.k = "corrupt" THEN STATE_DEFAULT
    ELSE DictUpdate(STATE_DEFAULT, disk.d)

load_state == _load_state_from_disk

\* what can happen in _save_state_to_disk: the file is written; open raises
\* and the file stays as it is; open has truncated the file and the write
\* breaks off.  Both faults are swallowed.
SaveIO == {"ok", "open_failed", "dump_failed"}

\* _save_state_to_disk(state): the file afterwards
_save_state_to_disk(state, io) ==
    CASE io = "ok" -> File(state)
      [] io = "open_failed" -> disk
      [] io = "dump_failed" -> Corrupt

\* save_state(updates) that writes the updates over the defaults
save_state_over_defaults(updates, io) ==
    _save_state_to_disk(DictUpdate(STATE_DEFAULT, updates), io)

\* save_state(updates): load, update, save
save_state(updates, io) ==
    _save_state_to_disk(DictUpdate(load_state, updates), io)

\* datetime.utcnow().isoformat()
Times == {"t1", "t2"}

\* the goal argument of run_cycle
Goals == {"", "g"}

\* the results argument of reflect
Results == {<<>>, << [tool |-> "paperless.search", output |-> "doc"] >>}

\* the updates argument of set_state
SetUpdates ==
    { <<>>, [heartbeat |-> None], [heartbeat |-> JNum(1)],
      [cycle |-> JNum(1), note |-> JStr("n")] }

\* the history of a tool call that returned reply
Called(tool, before, updates, io, reply) ==
    [tool |-> tool, before |-> before, updates |-> updates, save |-> io,
     raised |-> FALSE, reply |-> reply]

\* the history of a tool call that raised TypeError before it saved
CallRaised(tool, before) ==
    [tool |-> tool, before |-> before, updates |-> <<>>, save |-> "none",
     raised |-> TRUE, reply |-> None]

\* heartbeat()
heartbeat ==
    LET state == load_state IN
    /\ IF state.heartbeat.t /= "num"
       THEN /\ last' = CallRaised("heartbeat", state)
            /\ UNCHANGED disk
       ELSE /\ state.heartbeat.n < MaxCount
            /\ \E now \in Times, io \in SaveIO :
                LET updates == [heartbeat |-> JNum(state.heartbeat.n + 1),
                                last_seen |-> JStr(now)]
                IN  /\ disk' = save_state(updates, io)
                    /\ last' = Called("heartbeat", state, updates, io,
                                      [status |-> "ok",
                                       state_updates |-> updates])
    /\ UNCHANGED labVars

\* run_cycle: the plan for the goal
Plan(goal) ==
    IF goal /= ""
    THEN JList(<< [tool |-> "knowledge-graph.add_node", goal |-> goal],
                  [tool |-> "paperless.search", goal |-> goal],
                  [tool |-> "long-term-memory.search_memories",
                   goal |-> goal] >>)
    ELSE JList(<< [tool |-> "noop", goal |-> ""] >>)

\* run_cycle(goal)
run_cycle ==
    LET state == load_state IN
    /\ IF state.cycle.t /= "num"
       THEN /\ last' = CallRaised("run_cycle", state)
            /\ UNCHANGED disk
       ELSE /\ state.cycle.n < MaxCount
            /\ \E goal \in Goals, now \in Times, io \in SaveIO :
                LET updates ==
                      [cycle |-> JNum(state.cycle.n + 1),
                       active_goals |-> IF goal /= ""
                                        THEN JList(<<JStr(goal)>>)
                                        ELSE state.active_goals,
                       last_plan |-> Plan(goal),
                       last_seen |-> JStr(now)]
                IN  /\ disk' = save_state(updates, io)
                    /\ last' = Called("run_cycle", state, updates, io,
                                      [plan |-> Plan(goal),
                                       state_updates |-> updates])
    /\ UNCHANGED labVars

\* reflect(results)
reflect ==
    /\ \E results \in Results, now \in Times, io \in SaveIO :
        LET insights ==
              JList([i \in 1 .. Len(results) |->
                       [observed |-> results[i].tool,
                        output |-> results[i].output]])
            updates == [last_reflection |-> insights, last_seen |-> JStr(now)]
        IN  /\ disk' = save_state(updates, io)
            /\ last' = Called("reflect", load_state, updates, io,
                              [insights |-> insights,
                               state_updates |-> updates])
    /\ UNCHANGED labVars

\* get_state()
get_state ==
    /\ last' = Called("get_state", load_state, <<>>, "none", load_state)
    /\ UNCHANGED disk
    /\ UNCHANGED labVars

\* set_state(updates)
set_state ==
    /\ \E updates \in SetUpdates, io \in SaveIO :
        /\ disk' = save_state(updates, io)
        /\ last' = Called("set_state", load_state, updates, io,
                          [updated |-> updates])
    /\ UNCHANGED labVars

LoopNext ==
    \/ heartbeat
    \/ run_cycle
    \/ reflect
    \/ get_state
    \/ set_state

LoopSpec == Init /\ [][LoopNext]_vars

\* the tool of the latest call changes the state
StateChanging == last.tool \in {"heartbeat", "run_cycle", "reflect", "set_state"}

\* the counter the tool of the latest call raises
CounterOf(tool) == IF tool = "heartbeat" THEN "heartbeat" ELSE "cycle"

\* the counter named key stands, in what get_state returns now, exactly 1
\* above its value before the latest call
RaisedByOne(key) ==
    /\ last.before[key].t = "num"
    /\ load_state[key] = JNum(last.before[key].n + 1)

\* every key the latest call did not name has, in what get_state returns
\* now, the value it had before the call
OtherKeysKept ==
    \A k \in (DOMAIN last.before) \ (DOMAIN last.updates) :
        k \in DOMAIN load_state /\ load_state[k] = last.before[k]

\* C19 as stated: heartbeat raises the persisted heartbeat counter by
\* exactly 1, run_cycle the persisted cycle counter by exactly 1, set_state
\* followed by get_state returns the given values, and every other key keeps
\* its value, on every call.
ToolsChangeOnlyNamedKeys ==
    StateChanging
        => /\ last.tool \in {"heartbeat", "run_cycle"}
                => RaisedByOne(CounterOf(last.tool))
           /\ last.tool = "set_state"
                => \A k \in DOMAIN last.updates :
                       load_state[k] = last.updates[k]
           /\ OtherKeysKept

\* C19 amended: relative to the state load_state returned before the call
\* (the defaults when the file is missing or unreadable), a state-changing
\* tool whose save succeeds changes exactly the keys of its updates to the
\* values of its updates and keeps every other key: heartbeat raises the
\* heartbeat counter by exactly 1 and run_cycle the cycle counter by exactly
\* 1, set_state followed by get_state returns the given values.  heartbeat
\* and run_cycle fault, and change nothing, exactly when the stored counter
\* is not a number.  A save that fails is swallowed: the tool returns its
\* updates all the same, and the state is unchanged when the file could not
\* be opened and reads as the defaults when the write broke off.
ToolsChangeOnlyNamedKeysWhenSaved ==
    StateChanging
        => /\ last.raised
                <=> /\ last.tool \in {"heartbeat", "run_cycle"}
                    /\ last.before[CounterOf(last.tool)].t /= "num"
           /\ last.raised => load_state = last.before
           /\ ~last.raised /\ last.tool \in {"heartbeat", "run_cycle"}
                => last.updates[CounterOf(last.tool)] =
                       JNum(last.before[CounterOf(last.tool)].n + 1)
           /\ ~last.raised
                => last.reply /= None /\ last.save \in SaveIO
           /\ last.save = "ok"
                => /\ \A k \in DOMAIN last.updates :
                          load_state[k] = last.updates[k]
                   /\ OtherKeysKept
                   /\ last.tool \in {"heartbeat", "run_cycle"}
                        => RaisedByOne(CounterOf(last.tool))
           /\ last.save = "open_failed" => load_state = last.before
           /\ last.save = "dump_failed" => load_state = STATE_DEFAULT

\* C19 witness: a heartbeat whose save succeeded raised the counter from 1
\* to 2 and kept the cycle counter, the goal and the plan that run_cycle had
\* stored
ToolsChangeOnlyNamedKeysWhenSavedWitness ==
    /\ last.tool = "heartbeat" /\ last.save = "ok"
    /\ last.before.heartbeat = JNum(1)
    /\ load_state.heartbeat = JNum(2)
    /\ load_state.cycle = JNum(1)
    /\ load_state.active_goals = JList(<<JStr("g")>>)
    /\ load_state.last_plan = Plan("g")

==============================================================================
